---- MODULE Spec2Model ----
(***************************************************************************)
(* A model of qb's fluent SQL builder (builder.go).                        *)
(*                                                                         *)
(* A Go string is a sequence of tokens.  A token is either a chunk of      *)
(* literal text (one character for caller-supplied identifiers, so that    *)
(* strings.Contains / strings.Split on "." and " " act on characters) or   *)
(* one placeholder.  A placeholder token carries its text ("?" or "$" and  *)
(* the number n) and a history field g: the position in the bindings of    *)
(* the value the placeholder was emitted (or written by the caller) for.   *)
(* g is not part of the text; no operation of the program reads it.        *)
(*                                                                         *)
(* Builder.query is a pointer: queries live in a heap of three slots and   *)
(* a Builder holds the slot of its active query.                           *)
(*                                                                         *)
(* Query (NewQuery, AddClause, AddBinding, SQL, Bindings) and Adapter      *)
(* (NewAdapter, Escape, Placeholder, Placeholders, SetEscaping, Reset) are *)
(* not part of builder.go; they are modelled from the specification,       *)
(* sections 3, 4.1, 4.2 and 6.                                             *)
(***************************************************************************)
EXTENDS Integers, Sequences, FiniteSets, TLC

\* ------------------------------------------------------------- bounds
MaxCalls == 4
MaxConcCalls == 2

\* ------------------------------------------------------------ strings
Lit(s) == [k |-> "lit", s |-> s, n |-> 0, g |-> 0]
Ph(s, n, g) == [k |-> "ph", s |-> s, n |-> n, g |-> g]
Str(s) == <<Lit(s)>>
Chars(cs) == [i \in 1..Len(cs) |-> Lit(cs[i])]
EmptyStr == <<>>

RECURSIVE Join(_, _)
Join(strs, sep) ==
  IF Len(strs) = 0 THEN EmptyStr
  ELSE IF Len(strs) = 1 THEN strs[1]
  ELSE strs[1] \o sep \o Join(Tail(strs), sep)

Contains(s, c) == \E i \in 1..Len(s) : s[i] = Lit(c)

IndexOf(s, c) ==
  IF Contains(s, c) THEN CHOOSE i \in 1..Len(s) : s[i] = Lit(c) /\ \A j \in 1..(i-1) : s[j] # Lit(c)
  ELSE 0

RECURSIVE Split(_, _)
Split(s, c) ==
  IF ~Contains(s, c) THEN <<s>>
  ELSE LET i == IndexOf(s, c)
       IN <<SubSeq(s, 1, i-1)>> \o Split(SubSeq(s, i+1, Len(s)), c)

\* The placeholder tokens of a string, left to right.
Placeholders_of(s) == SelectSeq(s, LAMBDA t : t.k = "ph")

\* Record the position g of the value a freshly requested placeholder is for.
Tag(s, g) == [i \in 1..Len(s) |-> IF s[i].k = "ph" THEN [s[i] EXCEPT !.g = g] ELSE s[i]]

\* -------------------------------------------------------------- Query
NewQuery == [clauses |-> <<>>, bindings |-> <<>>]
AddClause(q, fragment) == [q EXCEPT !.clauses = Append(@, fragment)]
AddBinding(q, values) == [q EXCEPT !.bindings = @ \o values]
SQL(q) == Join(q.clauses, Str(" "))
Bindings(q) == q.bindings

\* ------------------------------------------------------------ Adapter
NumberedDrivers == {"postgres"}
StaticDrivers == {"mysql"}
KnownDrivers == NumberedDrivers \cup StaticDrivers
NoAdapter == [driver |-> "", escaping |-> FALSE, placeholderCount |-> 0]
\* The flag a new adapter starts with is not specified; callers set it.
DefaultEscaping == FALSE
NewAdapter(driver) ==
  IF driver \in KnownDrivers
  THEN [ok |-> TRUE, a |-> [driver |-> driver, escaping |-> DefaultEscaping, placeholderCount |-> 0]]
  ELSE [ok |-> FALSE, a |-> NoAdapter]

\* The quoting character of the dialect (mysql's backquote is written ').
EscapeChar(a) == IF a.driver \in NumberedDrivers THEN "\"" ELSE "'"
Quote(a, s) == Str(EscapeChar(a)) \o s \o Str(EscapeChar(a))
Escape(a, identifier) ==
  IF ~a.escaping THEN identifier
  ELSE IF Contains(identifier, ".")
       THEN LET i == IndexOf(identifier, ".")
            IN SubSeq(identifier, 1, i) \o Quote(a, SubSeq(identifier, i+1, Len(identifier)))
       ELSE Quote(a, identifier)

Placeholder(a) ==
  IF a.driver \in NumberedDrivers
  THEN [a |-> [a EXCEPT !.placeholderCount = @ + 1], s |-> <<Ph("$", a.placeholderCount + 1, 0)>>]
  ELSE [a |-> a, s |-> <<Ph("?", 0, 0)>>]

\* One token per value, each from Placeholder; strs is the sequence of tokens.
RECURSIVE Placeholders(_, _)
Placeholders(a, values) ==
  IF Len(values) = 0 THEN [a |-> a, strs |-> <<>>]
  ELSE LET p == Placeholder(a)
           r == Placeholders(p.a, Tail(values))
       IN [a |-> r.a, strs |-> <<p.s>> \o r.strs]

AdapterSetEscaping(a, escaping) == [a EXCEPT !.escaping = escaping]
AdapterReset(a) == [a EXCEPT !.placeholderCount = 0]

\* ------------------------------------------------------------ Builder
\* A Builder: the heap slot of its active query, and its adapter.
NoBuilder == [query |-> 0, adapter |-> NoAdapter]
QIds == {1, 2, 3}
EmptyHeap == [i \in QIds |-> NewQuery]

\* A slip: an unrecognized selector quietly gets the static dialect.
NewBuilderFallback(driver, qid) ==
  LET r == NewAdapter(driver)
  IN [ok |-> TRUE,
      b |-> [query |-> qid,
             adapter |-> IF r.ok THEN r.a
                         ELSE [driver |-> "mysql", escaping |-> DefaultEscaping, placeholderCount |-> 0]]]

\* NewBuilder(driver): no error result and no recover; it fails exactly when
\* NewAdapter does.  qid is the slot NewQuery() allocates.
NewBuilder(driver, qid) ==
  LET r == NewAdapter(driver)
  IN IF r.ok THEN [ok |-> TRUE, b |-> [query |-> qid, adapter |-> r.a]]
     ELSE [ok |-> FALSE, b |-> NoBuilder]

SetEscaping(bb, escaping) == [bb EXCEPT !.adapter = AdapterSetEscaping(@, escaping)]
Escaping(bb) == bb.adapter.escaping

\* Slips: Reset without b.adapter.Reset(); Reset that empties the active
\* query object instead of replacing it; Reset that makes a new adapter.
ResetKeepsCount(bb, h, fresh) ==
  [b |-> [query |-> fresh, adapter |-> bb.adapter],
   h |-> [h EXCEPT ![fresh] = NewQuery]]
ResetInPlace(bb, h, fresh) ==
  [b |-> [query |-> bb.query, adapter |-> AdapterReset(bb.adapter)],
   h |-> [h EXCEPT ![bb.query] = NewQuery]]
ResetNewAdapter(bb, h, fresh) ==
  [b |-> [query |-> fresh, adapter |-> NewAdapter(bb.adapter.driver).a],
   h |-> [h EXCEPT ![fresh] = NewQuery]]

\* b.query = NewQuery() (a fresh object in slot fresh); b.adapter.Reset()
Reset(bb, h, fresh) ==
  [b |-> [query |-> fresh, adapter |-> AdapterReset(bb.adapter)],
   h |-> [h EXCEPT ![fresh] = NewQuery]]

\* A slip: Query returns b.query after the reset.
QueryReturnsActive(bb, h, fresh) ==
  LET r == Reset(bb, h, fresh)
  IN [b |-> r.b, h |-> r.h, q |-> r.b.query]

\* query := b.query; b.Reset(); return query  (logging leaves the state alone)
Query(bb, h, fresh) ==
  LET r == Reset(bb, h, fresh)
  IN [b |-> r.b, h |-> r.h, q |-> bb.query]

OnQuery(bb, h, q) == [b |-> bb, h |-> [h EXCEPT ![bb.query] = q]]

InsertClause(a, table) == Str("INSERT INTO ") \o Escape(a, table)
Insert(bb, h, table) == OnQuery(bb, h, AddClause(h[bb.query], InsertClause(bb.adapter, table)))

UpdateClause(a, table) == Str("UPDATE ") \o Escape(a, table)
Update(bb, h, table) == OnQuery(bb, h, AddClause(h[bb.query], UpdateClause(bb.adapter, table)))

\* Values(m): order is the order in which `range m` visits the keys of m.
\* One loop collects keys, values and bindings; a second asks for one
\* placeholder per collected value.
\* A slip: the keys collected by a range loop of their own, which visits the
\* map in another order.
ValuesKeysSecondLoop(a, order) ==
  [i \in 1..Len(order) |-> Escape(a, order[Len(order) + 1 - i])]
ValuesKeys(a, order) == [i \in 1..Len(order) |-> Escape(a, order[i])]
ValuesValues(m, order) == [i \in 1..Len(order) |-> m[order[i]]]
Values(bb, h, m, order) ==
  LET q0 == h[bb.query]
      keys == ValuesKeys(bb.adapter, order)
      values == ValuesValues(m, order)
      q1 == AddBinding(q0, values)
      q2 == AddClause(q1, Str("(") \o Join(keys, Str(", ")) \o Str(")"))
      ps == Placeholders(bb.adapter, values)
      placeholders == [i \in 1..Len(values) |-> Tag(ps.strs[i], Len(q0.bindings) + i)]
      q3 == AddClause(q2, Str("VALUES (") \o Join(placeholders, Str(", ")) \o Str(")"))
  IN OnQuery([bb EXCEPT !.adapter = ps.a], h, q3)

\* Set(m): per entry, in visiting order: the left-hand side, a placeholder,
\* then the binding.
SetKey(a, k) ==
  IF Contains(k, ".")
  THEN LET kpieces == Split(k, ".")
       IN kpieces[1] \o Str(".") \o Escape(a, kpieces[2])
  ELSE Escape(a, k)
RECURSIVE SetLoop(_, _, _, _, _)
SetLoop(a, q, m, order, updates) ==
  IF Len(order) = 0 THEN [a |-> a, q |-> q, updates |-> updates]
  ELSE LET k == order[1]
           p == Placeholder(a)
           item == SetKey(a, k) \o Str(" = ") \o Tag(p.s, Len(q.bindings) + 1)
       IN SetLoop(p.a, AddBinding(q, <<m[k]>>), m, Tail(order), Append(updates, item))
Set(bb, h, m, order) ==
  LET r == SetLoop(bb.adapter, h[bb.query], m, order, <<>>)
      q == AddClause(r.q, Str("SET ") \o Join(r.updates, Str(", ")))
  IN OnQuery([bb EXCEPT !.adapter = r.a], h, q)

\* InnerJoin(table, expressions...)
JoinTable(a, table) ==
  LET tablePieces == Split(table, " ")
      v == Escape(a, tablePieces[1])
  IN IF Len(tablePieces) > 1 THEN v \o Str(" ") \o tablePieces[2] ELSE v
InnerJoinClause(a, table, expressions) ==
  Str("INNER JOIN ") \o JoinTable(a, table) \o Str(" ON ") \o Join(expressions, Str(" "))
InnerJoin(bb, h, table, expressions) ==
  OnQuery(bb, h, AddClause(h[bb.query], InnerJoinClause(bb.adapter, table, expressions)))

\* Where(expression, bindings...)
WhereClause(expression) == Str("WHERE ") \o expression
Where(bb, h, expression, bindings) ==
  IF expression = EmptyStr THEN [b |-> bb, h |-> h]
  ELSE OnQuery(bb, h, AddBinding(AddClause(h[bb.query], WhereClause(expression)), bindings))

HavingClause(expressions) == Str("HAVING ") \o Join(expressions, Str(", "))
Having(bb, h, expressions) == OnQuery(bb, h, AddClause(h[bb.query], HavingClause(expressions)))

\* ---- expressions.  Each helper first appends its binding(s), then formats
\* the key and the placeholder(s) it requests.
HelperBind(bb, h, values) == [h EXCEPT ![bb.query] = AddBinding(@, values)]
\* A slip: the placeholder requested twice.
HelperFormatTwice(bb, sym, key, g) ==
  LET p == Placeholder(Placeholder(bb.adapter).a)
  IN [b |-> [bb EXCEPT !.adapter = p.a],
      s |-> Escape(bb.adapter, key) \o Str(sym) \o Tag(p.s, g)]
HelperFormat(bb, sym, key, g) ==
  LET p == Placeholder(bb.adapter)
  IN [b |-> [bb EXCEPT !.adapter = p.a],
      s |-> Escape(bb.adapter, key) \o Str(sym) \o Tag(p.s, g)]
Compare(bb, h, sym, key, value) ==
  LET h1 == HelperBind(bb, h, <<value>>)
      r == HelperFormat(bb, sym, key, Len(h1[bb.query].bindings))
  IN [b |-> r.b, h |-> h1, s |-> r.s]
\* The text each helper puts between the key and the placeholder(s).
HelperSym(f) ==
  CASE f = "NotIn" -> " NOT IN ("
    [] f = "In" -> " IN ("
    [] f = "NotEq" -> " != "
    [] f = "Eq" -> " = "
    [] f = "Gt" -> " > "
    [] f = "Gte" -> " >= "
    [] f = "St" -> " < "
    [] f = "Ste" -> " <= "
NotEq(bb, h, key, value) == Compare(bb, h, HelperSym("NotEq"), key, value)
Eq(bb, h, key, value) == Compare(bb, h, HelperSym("Eq"), key, value)
Gt(bb, h, key, value) == Compare(bb, h, HelperSym("Gt"), key, value)
Gte(bb, h, key, value) == Compare(bb, h, HelperSym("Gte"), key, value)
St(bb, h, key, value) == Compare(bb, h, HelperSym("St"), key, value)
Ste(bb, h, key, value) == Compare(bb, h, HelperSym("Ste"), key, value)

\* base is the number of bindings before the values of this call.
ListFormat(bb, sym, key, values, base) ==
  LET ps == Placeholders(bb.adapter, values)
      tagged == [i \in 1..Len(values) |-> Tag(ps.strs[i], base + i)]
  IN [b |-> [bb EXCEPT !.adapter = ps.a],
      s |-> Escape(bb.adapter, key) \o Str(sym) \o Join(tagged, Str(",")) \o Str(")")]
\* A slip: the values are not bound.
InListNoBind(bb, h, sym, key, values) ==
  LET r == ListFormat(bb, sym, key, values, Len(h[bb.query].bindings))
  IN [b |-> r.b, h |-> h, s |-> r.s]
InList(bb, h, sym, key, values) ==
  LET h1 == HelperBind(bb, h, values)
      r == ListFormat(bb, sym, key, values, Len(h[bb.query].bindings))
  IN [b |-> r.b, h |-> h1, s |-> r.s]
NotIn(bb, h, key, values) == InList(bb, h, HelperSym("NotIn"), key, values)
In(bb, h, key, values) == InList(bb, h, HelperSym("In"), key, values)

And(expressions) ==
  IF Len(expressions) = 0 THEN EmptyStr
  ELSE Str("(") \o Join(expressions, Str(" AND ")) \o Str(")")
Or(expressions) == Join(expressions, Str(" OR "))

\* ------------------------------------------------------- the callers
\* What the callers pass in.
DriverInputs == {"postgres", "mysql", "oracle"}
Tables == {Chars(<<"t">>)}
HelperKeys == {Chars(<<"a">>)}
Vals == {1, 2}
CompareHelpers == {"Eq", "NotEq", "Gt", "Gte", "St", "Ste"}
ListHelpers == {"In", "NotIn"}
\* The callers of Spec and SpecConc use one helper of each shape (the others
\* differ in one chunk of text and are called in SpecOne).
SeqCompareHelpers == {"Eq"}
SeqListHelpers == {"In"}
ListInputs == {<<1, 2>>}
\* A map is a function from keys to values; MapOrders(m) are the orders in
\* which a range loop may visit it.
MapInputs == {(Chars(<<"a">>) :> 2)}
Perms(S) == {o \in [1..Cardinality(S) -> S] : \A i, j \in DOMAIN o : i # j => o[i] # o[j]}
MapOrders(m) == Perms(DOMAIN m)
\* The ways to pass some of the n strings a caller holds, each at most once.
Arrangements(n) == UNION {Perms(S) : S \in SUBSET (1..n)}
Pick(strs, sel) == [i \in 1..Len(sel) |-> strs[sel[i]]]
Drop(strs, sel) ==
  LET keep == {i \in 1..Len(strs) : \A j \in DOMAIN sel : sel[j] # i}
      F[i \in 0..Len(strs)] ==
        IF i = 0 THEN <<>> ELSE IF i \in keep THEN Append(F[i-1], strs[i]) ELSE F[i-1]
  IN F[Len(strs)]
\* sel passes the oldest strings held, oldest first.
InCallOrder(sel) == \A i \in DOMAIN sel : sel[i] = i
\* An expression the caller writes by hand for Where, with one placeholder
\* of the dialect per explicit binding, numbered by its position.
RawExpr(a, base, values) ==
  Chars(<<"x">>) \o
  [i \in 1..Len(values) |->
     IF a.driver \in NumberedDrivers THEN Ph("$", base + i, base + i) ELSE Ph("?", 0, base + i)]
RawInputs == {<<2>>}

\* -------------------------------------------------------------- state
VARIABLES
  status,        \* "new", "ok" (NewBuilder returned) or "failed" (it did not)
  driverArg,     \* the dialect selector NewBuilder was called with
  arg,           \* the arguments of the last call
  b,             \* the Builder
  heap,          \* slot -> Query
  ret,           \* the slot of the query the last Query() returned, 0 if none
  pending,       \* strings returned by expression helpers, not yet passed on
  op,            \* the last call
  calls,         \* number of calls made
  obs,           \* what SQL() and Bindings() of the returned query last gave
  emitted,       \* history: placeholders requested of the adapter since the last reset
  logC, logB,    \* history: clauses and bindings appended since the last reset
  retLogC, retLogB,  \* history: logC and logB when the last Query() was called
  ordered,       \* history: every helper string so far was passed on in call order,
                 \* before any other call that appends bindings and before Reset/Query
  retAllPassed,  \* history: no helper string was held back when Query() was called
  restarts,      \* history: number of Reset() and Query() calls so far
  prevB,         \* history: the builder before the last call
  prevHeap,      \* history: the heap before the last call
  shared,        \* SpecConc: whether the two callers use one Builder
  cb,            \* SpecConc: the Builders
  cpc,           \* SpecConc: where each caller is in its helper call
  cres,          \* SpecConc: the strings each caller's helpers returned
  cown           \* SpecConc, history: per Builder, the caller that appended each binding

core == <<status, driverArg, b, heap, ret, pending, op, calls, obs, arg>>
hist == <<emitted, logC, logB, retLogC, retLogB, ordered, retAllPassed, restarts, prevB, prevHeap>>
conc == <<shared, cb, cpc, cres, cown>>
vars == <<core, hist, conc>>

NoArg == [x |-> FALSE, m |-> <<>>, order |-> <<>>]
NoObs == [taken |-> FALSE, sql |-> EmptyStr, bindings |-> <<>>]
ConcIdle == /\ shared = FALSE /\ cb = <<>> /\ cpc = <<>> /\ cres = <<>> /\ cown = <<>>

Init ==
  /\ status = "new" /\ driverArg = "" /\ arg = NoArg
  /\ b = NoBuilder /\ heap = EmptyHeap /\ ret = 0
  /\ pending = <<>> /\ op = "none" /\ calls = 0 /\ obs = NoObs
  /\ emitted = <<>> /\ logC = <<>> /\ logB = <<>> /\ retLogC = <<>> /\ retLogB = <<>>
  /\ ordered = TRUE /\ retAllPassed = TRUE /\ restarts = 0 /\ prevB = NoBuilder /\ prevHeap = EmptyHeap
  /\ ConcIdle

Appended(old, new) == SubSeq(new, Len(old) + 1, Len(new))
GC(h, live) == [i \in QIds |-> IF i \in live THEN h[i] ELSE NewQuery]
Fresh == CHOOSE i \in QIds : i \notin {b.query, ret}
CanCall == status = "ok" /\ calls < MaxCalls

\* The bookkeeping of a call that leaves the builder on its active query.
Called(name, a, nb, nh, npending, requested, inOrder) ==
  /\ arg' = a /\ b' = nb /\ heap' = nh /\ pending' = npending
  /\ op' = name /\ calls' = calls + 1
  /\ emitted' = emitted \o requested
  /\ logC' = logC \o Appended(heap[b.query].clauses, nh[b.query].clauses)
  /\ logB' = logB \o Appended(heap[b.query].bindings, nh[b.query].bindings)
  /\ ordered' = (ordered /\ inOrder)
  /\ prevB' = b /\ prevHeap' = heap
  /\ UNCHANGED <<status, driverArg, ret, obs, retLogC, retLogB, retAllPassed, restarts, conc>>

CallNewBuilder ==
  /\ status = "new"
  /\ \E driver \in DriverInputs :
       LET r == NewBuilder(driver, 1)
       IN /\ status' = IF r.ok THEN "ok" ELSE "failed"
          /\ b' = r.b
          /\ driverArg' = driver
  /\ op' = "NewBuilder"
  /\ UNCHANGED <<heap, ret, pending, calls, obs, arg, hist, conc>>

CallSetEscaping ==
  /\ CanCall
  /\ \E x \in BOOLEAN : Called("SetEscaping", [NoArg EXCEPT !.x = x], SetEscaping(b, x), heap, pending, <<>>, TRUE)

CallReset ==
  /\ CanCall
  /\ LET r == Reset(b, heap, Fresh)
     IN /\ b' = r.b /\ heap' = GC(r.h, {r.b.query, ret})
        /\ op' = "Reset" /\ calls' = calls + 1 /\ restarts' = restarts + 1
        /\ emitted' = <<>> /\ logC' = <<>> /\ logB' = <<>>
        /\ ordered' = (ordered /\ pending = <<>>)
        /\ prevB' = b /\ prevHeap' = heap
        /\ UNCHANGED <<status, driverArg, arg, ret, pending, obs, retLogC, retLogB, retAllPassed, conc>>

CallQuery ==
  /\ CanCall
  /\ LET r == Query(b, heap, Fresh)
     IN /\ b' = r.b /\ ret' = r.q /\ heap' = GC(r.h, {r.b.query, r.q})
        /\ op' = "Query" /\ calls' = calls + 1 /\ restarts' = restarts + 1 /\ obs' = NoObs
        /\ emitted' = <<>> /\ logC' = <<>> /\ logB' = <<>>
        /\ retLogC' = logC /\ retLogB' = logB
        /\ retAllPassed' = (pending = <<>>)
        /\ ordered' = (ordered /\ pending = <<>>)
        /\ prevB' = b /\ prevHeap' = heap
        /\ UNCHANGED <<status, driverArg, arg, pending, conc>>

CallInsert ==
  /\ CanCall
  /\ \E table \in Tables :
       LET r == Insert(b, heap, table) IN Called("Insert", NoArg, r.b, r.h, pending, <<>>, TRUE)

CallUpdate ==
  /\ CanCall
  /\ \E table \in Tables :
       LET r == Update(b, heap, table) IN Called("Update", NoArg, r.b, r.h, pending, <<>>, TRUE)

LastClause(q) == q.clauses[Len(q.clauses)]

CallValues ==
  /\ CanCall
  /\ \E m \in MapInputs : \E order \in MapOrders(m) :
       LET r == Values(b, heap, m, order)
       IN Called("Values", [NoArg EXCEPT !.m = m, !.order = order], r.b, r.h, pending,
                 Placeholders_of(LastClause(r.h[b.query])), pending = <<>>)

CallSet ==
  /\ CanCall
  /\ \E m \in MapInputs : \E order \in MapOrders(m) :
       LET r == Set(b, heap, m, order)
       IN Called("Set", [NoArg EXCEPT !.m = m, !.order = order], r.b, r.h, pending,
                 Placeholders_of(LastClause(r.h[b.query])), pending = <<>>)

CompareBy(f, bb, h, key, value) ==
  CASE f = "Eq" -> Eq(bb, h, key, value)
    [] f = "NotEq" -> NotEq(bb, h, key, value)
    [] f = "Gt" -> Gt(bb, h, key, value)
    [] f = "Gte" -> Gte(bb, h, key, value)
    [] f = "St" -> St(bb, h, key, value)
    [] f = "Ste" -> Ste(bb, h, key, value)

CallCompare ==
  /\ CanCall
  /\ \E f \in SeqCompareHelpers, key \in HelperKeys, value \in {1} :
       LET r == CompareBy(f, b, heap, key, value)
       IN Called(f, NoArg, r.b, r.h, Append(pending, r.s), Placeholders_of(r.s), TRUE)

CallInList ==
  /\ CanCall
  /\ \E f \in SeqListHelpers, key \in HelperKeys, values \in ListInputs :
       LET r == IF f = "In" THEN In(b, heap, key, values) ELSE NotIn(b, heap, key, values)
       IN Called(f, NoArg, r.b, r.h, Append(pending, r.s), Placeholders_of(r.s), TRUE)

\* Where(b.And(e...)) or Where(b.Or(e...)) over strings the caller holds.
CallWhere ==
  /\ CanCall
  /\ \E sel \in Arrangements(Len(pending)), junction \in {"And", "Or"} :
       LET es == Pick(pending, sel)
           r == Where(b, heap, IF junction = "And" THEN And(es) ELSE Or(es), <<>>)
       IN Called("Where", NoArg, r.b, r.h, Drop(pending, sel), <<>>, InCallOrder(sel))

\* Where("x ...", values...) with a hand-written expression.
CallWhereRaw ==
  /\ CanCall
  /\ \E values \in RawInputs :
       LET r == Where(b, heap, RawExpr(b.adapter, Len(heap[b.query].bindings), values), values)
       IN Called("WhereRaw", NoArg, r.b, r.h, pending, <<>>, values = <<>> \/ pending = <<>>)

CallHaving ==
  /\ CanCall
  /\ \E sel \in Arrangements(Len(pending)) :
       LET r == Having(b, heap, Pick(pending, sel))
       IN Called("Having", NoArg, r.b, r.h, Drop(pending, sel), <<>>, InCallOrder(sel))

CallInnerJoin ==
  /\ CanCall
  /\ \E table \in Tables, sel \in Arrangements(Len(pending)) :
       LET r == InnerJoin(b, heap, table, Pick(pending, sel))
       IN Called("InnerJoin", NoArg, r.b, r.h, Drop(pending, sel), <<>>, InCallOrder(sel))

\* SQL() and Bindings() of the query Query() returned.
Observe ==
  /\ status = "ok" /\ ret # 0
  /\ obs' = [taken |-> TRUE, sql |-> SQL(heap[ret]), bindings |-> Bindings(heap[ret])]
  /\ UNCHANGED <<status, driverArg, arg, b, heap, ret, pending, op, calls, hist, conc>>

Next ==
  \/ CallNewBuilder
  \/ CallSetEscaping
  \/ CallReset
  \/ CallQuery
  \/ CallInsert
  \/ CallUpdate
  \/ CallValues
  \/ CallSet
  \/ CallCompare
  \/ CallInList
  \/ CallWhere
  \/ CallWhereRaw
  \/ CallHaving
  \/ CallInnerJoin
  \/ Observe

Spec == Init /\ [][Next]_vars

\* ------------------------------------------------- SpecOne: one call
\* One call of Values, Set or an expression helper, with wider arguments,
\* on a builder that earlier calls left with some clauses and bindings.
\* The history variables of Spec other than prevB and prevHeap are not kept.
ValueKeys == {Chars(<<"a">>), Chars(<<"b">>), Chars(<<"c">>)}
SetKeys == {Chars(<<"a">>), Chars(<<"t", ".", "c">>), Chars(<<"s", ".", "t", ".", "c">>)}
OneHelperKeys == {Chars(<<"a">>), Chars(<<"t", ".", "c">>)}
MapsOver(keys) == UNION {[S -> Vals] : S \in SUBSET keys}
OneListInputs == {<<>>, <<1>>, <<1, 2>>, <<2, 1>>}

\* The builder after SetEscaping(escaping), x Where calls with a hand-written
\* expression and one explicit binding, and n rounds of Having(Eq("a", 1)).
RECURSIVE Earlier(_, _, _, _)
Earlier(bb, h, x, n) ==
  IF x > 0
  THEN LET r == Where(bb, h, RawExpr(bb.adapter, Len(h[bb.query].bindings), <<2>>), <<2>>)
       IN Earlier(r.b, r.h, x - 1, n)
  ELSE IF n > 0
  THEN LET e == Eq(bb, h, Chars(<<"a">>), 1)
           r == Having(e.b, e.h, <<e.s>>)
       IN Earlier(r.b, r.h, 0, n - 1)
  ELSE [b |-> bb, h |-> h]

OneInit ==
  /\ \E driver \in KnownDrivers, escaping \in BOOLEAN, x \in {0, 1}, n \in {0, 1, 2} :
       LET r == Earlier(SetEscaping(NewBuilder(driver, 1).b, escaping), EmptyHeap, x, n)
       IN b = r.b /\ heap = r.h /\ driverArg = driver
  /\ status = "ok" /\ arg = NoArg /\ ret = 0
  /\ pending = <<>> /\ op = "none" /\ calls = 0 /\ obs = NoObs
  /\ emitted = <<>> /\ logC = <<>> /\ logB = <<>> /\ retLogC = <<>> /\ retLogB = <<>>
  /\ ordered = TRUE /\ retAllPassed = TRUE /\ restarts = 0 /\ prevB = NoBuilder /\ prevHeap = EmptyHeap
  /\ ConcIdle

One(name, a, nb, nh, npending) ==
  /\ arg' = a /\ b' = nb /\ heap' = nh /\ pending' = npending
  /\ op' = name /\ calls' = calls + 1
  /\ prevB' = b /\ prevHeap' = heap
  /\ UNCHANGED <<status, driverArg, ret, obs, emitted, logC, logB, retLogC, retLogB,
                 ordered, retAllPassed, restarts, conc>>

OneValues ==
  /\ op = "none"
  /\ \E m \in MapsOver(ValueKeys) : \E order \in MapOrders(m) :
       LET r == Values(b, heap, m, order)
       IN One("Values", [NoArg EXCEPT !.m = m, !.order = order], r.b, r.h, pending)

OneSet ==
  /\ op = "none"
  /\ \E m \in MapsOver(SetKeys) : \E order \in MapOrders(m) :
       LET r == Set(b, heap, m, order)
       IN One("Set", [NoArg EXCEPT !.m = m, !.order = order], r.b, r.h, pending)

OneCompare ==
  /\ op = "none"
  /\ \E f \in CompareHelpers, key \in OneHelperKeys, value \in Vals :
       LET r == CompareBy(f, b, heap, key, value)
       IN One(f, NoArg, r.b, r.h, <<r.s>>)

OneInList ==
  /\ op = "none"
  /\ \E f \in ListHelpers, key \in OneHelperKeys, values \in OneListInputs :
       LET r == IF f = "In" THEN In(b, heap, key, values) ELSE NotIn(b, heap, key, values)
       IN One(f, NoArg, r.b, r.h, <<r.s>>)

OneNext ==
  \/ OneValues
  \/ OneSet
  \/ OneCompare
  \/ OneInList

SpecOne == OneInit /\ [][OneNext]_vars

\* ------------------------------------ SpecConc: two concurrent callers
\* Each caller calls expression helpers; a helper is two steps, the binding
\* append and then the placeholder request with the formatting.  The callers
\* use one Builder (shared) or one each.  Caller c binds the value c.
Callers == {1, 2}
BuilderOf(c) == IF shared THEN 1 ELSE c
Idle == [at |-> "idle", f |-> "", values |-> <<>>, base |-> 0, done |-> 0]

ConcInit ==
  /\ shared \in BOOLEAN
  /\ \E driver \in KnownDrivers :
       /\ cb = [i \in Callers |-> NewBuilder(driver, i).b]
       /\ driverArg = driver
  /\ heap = EmptyHeap
  /\ cpc = [c \in Callers |-> Idle]
  /\ cres = [c \in Callers |-> <<>>]
  /\ cown = [i \in Callers |-> <<>>]
  /\ status = "ok" /\ arg = NoArg /\ b = NoBuilder /\ ret = 0
  /\ pending = <<>> /\ op = "none" /\ calls = 0 /\ obs = NoObs
  /\ emitted = <<>> /\ logC = <<>> /\ logB = <<>> /\ retLogC = <<>> /\ retLogB = <<>>
  /\ ordered = TRUE /\ retAllPassed = TRUE /\ restarts = 0 /\ prevB = NoBuilder /\ prevHeap = EmptyHeap

\* b.query.AddBinding(value) / b.query.AddBinding(values...)
ConcBind(c) ==
  /\ cpc[c].at = "idle" /\ cpc[c].done < MaxConcCalls
  /\ \E f \in SeqCompareHelpers \cup SeqListHelpers :
       LET bb == cb[BuilderOf(c)]
           values == IF f \in ListHelpers THEN <<c, c>> ELSE <<c>>
       IN /\ heap' = HelperBind(bb, heap, values)
          /\ cpc' = [cpc EXCEPT ![c] = [@ EXCEPT !.at = "bound", !.f = f, !.values = values,
                                                 !.base = Len(heap[bb.query].bindings)]]
          /\ cown' = [cown EXCEPT ![BuilderOf(c)] = @ \o [i \in 1..Len(values) |-> c]]
  /\ UNCHANGED <<status, driverArg, arg, b, ret, pending, op, calls, obs, hist, shared, cb, cres>>

\* return fmt.Sprintf(..., b.adapter.Escape(key), b.adapter.Placeholder())
ConcFormat(c) ==
  /\ cpc[c].at = "bound"
  /\ \E key \in HelperKeys :
       LET bb == cb[BuilderOf(c)]
           f == cpc[c].f
           r == IF f \in ListHelpers
                THEN ListFormat(bb, HelperSym(f), key, cpc[c].values, cpc[c].base)
                ELSE HelperFormat(bb, HelperSym(f), key, cpc[c].base + 1)
       IN /\ cb' = [cb EXCEPT ![BuilderOf(c)] = r.b]
          /\ cres' = [cres EXCEPT ![c] = Append(@, r.s)]
          /\ cpc' = [cpc EXCEPT ![c] = [Idle EXCEPT !.done = cpc[c].done + 1]]
  /\ UNCHANGED <<status, driverArg, arg, b, heap, ret, pending, op, calls, obs, hist, shared, cown>>

ConcNext ==
  \/ \E c \in Callers : ConcBind(c)
  \/ \E c \in Callers : ConcFormat(c)

SpecConc == ConcInit /\ [][ConcNext]_vars

\* ------------------------------------------------------------- claims
Returned == heap[ret]
Active == heap[b.query]
Numbered == b.adapter.driver \in NumberedDrivers

\* Every placeholder of q's SQL has a binding, and the N-th one, left to
\* right, is the one emitted (or written) for the value at position N.
Aligned(q) ==
  LET phs == Placeholders_of(SQL(q))
  IN /\ Len(phs) = Len(Bindings(q))
     /\ \A N \in 1..Len(phs) : phs[N].g = N

\* C1 as stated: after any sequence of clause-method and helper calls in
\* which every helper string was passed to some later clause method, the
\* query Query() returns is aligned.
C1_AlignedWhenAllPassed == (ret # 0 /\ restarts = 1 /\ retAllPassed) => Aligned(Returned)

\* C1, amended: when every helper string is passed to a clause method before
\* the next Values, Set, Where with explicit bindings, Reset or Query call,
\* and the strings are passed in the order the helpers were called, the
\* query Query() returns is aligned.
C1_AlignedWhenPassedInOrder == (ret # 0 /\ ordered) => Aligned(Returned)
C1_Witness ==
  /\ ret # 0 /\ ordered /\ op = "Query"
  /\ Len(Placeholders_of(SQL(Returned))) >= 3
  /\ Len(Returned.clauses) >= 2

\* C2: on a numbered dialect the k-th placeholder requested since
\* construction or the last Reset()/Query() is $k, the counter is the
\* number of requests, and right after Reset()/Query() the next placeholder
\* is the one a new adapter gives first.
C2_NumberingRestarts ==
  (status = "ok" /\ Numbered) =>
    /\ \A k \in 1..Len(emitted) : emitted[k].s = "$" /\ emitted[k].n = k
    /\ b.adapter.placeholderCount = Len(emitted)
    /\ op \in {"Reset", "Query"} =>
         /\ Placeholder(b.adapter).s = Placeholder(NewAdapter(b.adapter.driver).a).s
         /\ Placeholder(b.adapter).s[1].n = 1
C2_Witness ==
  /\ status = "ok" /\ Numbered /\ ret # 0
  /\ Len(Placeholders_of(SQL(Returned))) >= 2
  /\ Len(emitted) >= 1

\* C3: the query Query() returned holds exactly the clauses and bindings
\* appended since the reset before it, in order, whatever the builder is
\* asked afterwards; right after Query() the active query is a different
\* object with no clause and no binding.
C3_QueryHandsOverAndResets ==
  /\ ret # 0 => (Returned.clauses = retLogC /\ Returned.bindings = retLogB /\ ret # b.query)
  /\ op = "Query" => (Active.clauses = <<>> /\ Active.bindings = <<>>)
  /\ status = "ok" => (Active.clauses = logC /\ Active.bindings = logB)
C3_Witness ==
  /\ ret # 0 /\ Len(retLogC) >= 1 /\ Len(retLogB) >= 2
  /\ op # "Query" /\ Len(Active.clauses) >= 1 /\ Len(Active.bindings) >= 1

\* C5: Reset() and Query() leave the escaping flag as it was; SetEscaping(x)
\* sets it to x and leaves every query and every string already built as it
\* was; a later Insert escapes its table exactly when the flag is set.
C5_EscapingIsBuilderLifetime ==
  /\ op \in {"Reset", "Query"} => Escaping(b) = Escaping(prevB)
  /\ op = "SetEscaping" => (Escaping(b) = arg.x /\ heap = prevHeap)
  /\ op = "Insert" =>
       /\ Escaping(b) = Escaping(prevB)
       /\ \E table \in Tables :
            LastClause(Active) =
              Str("INSERT INTO ") \o
              (IF Escaping(prevB)
               THEN Str(EscapeChar(b.adapter)) \o table \o Str(EscapeChar(b.adapter))
               ELSE table)
C5_Witness ==
  /\ op = "Query" /\ Escaping(b) /\ Escaping(prevB)
  /\ \E i \in 1..Len(Returned.clauses) : Returned.clauses[i] = Str("INSERT INTO ") \o Chars(<<"t">>)

SpaceJoined(cs) ==
  LET F[i \in 0..Len(cs)] ==
        IF i = 0 THEN EmptyStr
        ELSE IF i = 1 THEN cs[1]
        ELSE F[i-1] \o <<Lit(" ")>> \o cs[i]
  IN F[Len(cs)]
\* C6: SQL() of the returned query is the appended clauses, in order, with
\* one space between neighbours; SQL() and Bindings() give the same again
\* and leave the query as it was.
C6_ClauseOrderPreserved ==
  /\ ret # 0 => SQL(Returned) = SpaceJoined(retLogC)
  /\ obs.taken =>
       /\ obs.sql = SQL(Returned) /\ obs.bindings = Bindings(Returned)
       /\ obs.sql = SpaceJoined(retLogC) /\ obs.bindings = retLogB
C6_Witness ==
  /\ obs.taken /\ Len(retLogC) >= 2 /\ retLogC[1] # retLogC[2]
  /\ op # "Query" /\ Len(Active.clauses) >= 1

C9_PlaceholderCountIsBindingCount ==
  status = "ok" =>
    /\ Len(emitted) = Len(Active.bindings)
    /\ Numbered =>
         \A i \in 1..Len(emitted) : emitted[i].n = emitted[i].g

\* ---- what one Values / Set call appended
Before == prevHeap[b.query]
AddedClauses == Appended(Before.clauses, Active.clauses)
AddedBindings == Appended(Before.bindings, Active.bindings)
Unquote(s) == SelectSeq(s, LAMBDA t : t # Lit(EscapeChar(b.adapter)))
Inner(s) == SubSeq(s, 2, Len(s) - 1)
Items(s) == IF s = EmptyStr THEN <<>> ELSE Split(s, ", ")
EntryCount == Cardinality(DOMAIN arg.m)

\* C8: whatever the order in which the map is visited, Values(m) appends
\* len(m) bindings, len(m) column names and len(m) placeholders; the k-th
\* column, the k-th placeholder and the k-th binding appended belong to the
\* same entry, each entry once; on a numbered dialect whose counter was the
\* number of bindings, the k-th placeholder's number is the position of
\* that binding.
C8_ValuesKeepsEntriesAligned ==
  op = "Values" =>
    LET cols == Items(Inner(AddedClauses[1]))
        phs == Placeholders_of(AddedClauses[2])
        base == Len(Before.bindings)
    IN /\ Len(AddedClauses) = 2
       /\ Len(AddedBindings) = EntryCount /\ Len(cols) = EntryCount /\ Len(phs) = EntryCount
       /\ AddedClauses[2] = Str("VALUES (") \o Join([k \in 1..Len(phs) |-> <<phs[k]>>], Str(", ")) \o Str(")")
       /\ \A k \in 1..EntryCount :
            /\ Unquote(cols[k]) \in DOMAIN arg.m
            /\ AddedBindings[k] = arg.m[Unquote(cols[k])]
            /\ phs[k].g = base + k
            /\ Active.bindings[phs[k].g] = arg.m[Unquote(cols[k])]
            /\ (Escaping(b) => cols[k] # Unquote(cols[k]))
       /\ \A j, k \in 1..EntryCount : j # k => cols[j] # cols[k]
       /\ (Numbered /\ prevB.adapter.placeholderCount = base) =>
            \A k \in 1..EntryCount : phs[k].n = base + k
C8_Witness ==
  /\ op = "Values" /\ EntryCount = 3 /\ Numbered
  /\ prevB.adapter.placeholderCount = Len(Before.bindings) /\ Len(Before.bindings) = 2
  /\ arg.order[1] = Chars(<<"c">>) /\ arg.order[3] = Chars(<<"a">>)
  /\ arg.m[Chars(<<"a">>)] # arg.m[Chars(<<"c">>)]

LeftSide(item) == SubSeq(item, 1, IndexOf(item, " = ") - 1)
\* C10 as stated: for every entry Set emits one "key = placeholder" item and
\* one binding; taking the escape characters out of the left-hand side
\* gives back the whole key; a key with a dot has only its part after a dot
\* escaped; with escaping off the key is emitted as it is.
C10_SetPreservesQualifiedKeys ==
  op = "Set" =>
    LET items == Items(Tail(AddedClauses[1]))
    IN /\ Len(AddedClauses) = 1 /\ Len(items) = EntryCount /\ Len(AddedBindings) = EntryCount
       /\ \A k \in 1..EntryCount :
            LET key == arg.order[k]
                lhs == LeftSide(items[k])
            IN /\ Len(Placeholders_of(items[k])) = 1
               /\ AddedBindings[k] = arg.m[key]
               /\ Unquote(lhs) = key
               /\ ~Escaping(b) => lhs = key
               /\ (Escaping(b) /\ Contains(key, ".")) =>
                    \E i \in 1..Len(key) :
                      /\ key[i] = Lit(".")
                      /\ lhs = SubSeq(key, 1, i) \o Quote(b.adapter, SubSeq(key, i + 1, Len(key)))

\* The placeholders caller c has been given, in the order it asked for them.
Flatten(strs) ==
  LET F[i \in 0..Len(strs)] == IF i = 0 THEN EmptyStr ELSE F[i-1] \o strs[i]
  IN F[Len(strs)]
CallerPlaceholders(c) == Placeholders_of(Flatten(cres[c]))
ConcNumbered == driverArg \in NumberedDrivers

\* C4: with a Builder of its own, under every interleaving, the k-th
\* placeholder a caller is given stands for the k-th binding of its Builder,
\* which that caller appended (on a numbered dialect it is $k).  The witness
\* is the other half: on one shared Builder some interleaving gives a caller
\* a placeholder numbered for a binding the other caller appended.
C4_OwnBuilderStaysAligned ==
  (cb # <<>> /\ ~shared) =>
    \A c \in Callers :
      LET phs == CallerPlaceholders(c)
          q == heap[cb[c].query]
      IN /\ cpc[c].at = "idle" => Len(phs) = Len(q.bindings)
         /\ \A k \in 1..Len(phs) :
              /\ phs[k].g = k
              /\ k <= Len(q.bindings) /\ q.bindings[k] = c /\ cown[c][k] = c
              /\ ConcNumbered => phs[k].n = k
C4_SharedBuilderMisaligned ==
  /\ cb # <<>> /\ shared /\ ConcNumbered
  /\ \E c \in Callers :
       \E k \in 1..Len(CallerPlaceholders(c)) :
         LET ph == CallerPlaceholders(c)[k]
         IN /\ ph.n # ph.g
            /\ ph.n <= Len(cown[1]) /\ cown[1][ph.n] # c
            /\ heap[cb[1].query].bindings[ph.n] # c

====
